---- MODULE Spec2Model ----
(***************************************************************************)
(* The ledger engine of mini-blockchain: transactions and their            *)
(* signatures (transaction.rs, wallet.rs), blocks and proof-of-work        *)
(* (block.rs), and the chain with its pool, difficulty adjustment, balance *)
(* replay and validation (blockchain.rs).                                  *)
(*                                                                         *)
(* Idealisations of the libraries the code calls:                          *)
(*  - SHA-256 is collision free: a digest is identified by its preimage.   *)
(*    A hex string is the pair (number of leading '0' characters, rest),   *)
(*    and the number of leading zeros of a digest is a fixed function of   *)
(*    the hashed data.                                                     *)
(*  - ECDSA is unforgeable: a signature names its signing key and the     *)
(*    digest it signs and verifies under exactly that key and that digest. *)
(*    It is malleable: (r, s) and (r, n - s) sign the same digest, and     *)
(*    P-256 verification accepts both.                                     *)
(*  - 64-bit integers are scaled to WordBits bits.                         *)
(***************************************************************************)
EXTENDS Integers, Sequences, FiniteSets, TLC

VARIABLES chain, mempool, difficulty, result, tampered

vars == <<chain, mempool, difficulty, result, tampered>>

(* ------------------------------ bounds --------------------------------- *)

\* Spec: the chain grows to at most this many blocks (genesis included).
MaxChain == 3
\* Spec: at most this many transactions are accepted over a run.
MaxTxs == 2
\* SpecDifficulty: the chain grows to at most this many blocks.
MaxLongChain == 22
\* Width of the machine words that stand for u64 / i64.
WordBits == 16
\* SpecMine: width of the word that stands for the u64 nonce.
NonceBits == 8

(* ------------------------- program constants --------------------------- *)

MINING_REWARD == 100
DIFFICULTY_ADJUSTMENT_INTERVAL == 10
TARGET_BLOCK_TIME_SECS == 30
\* Length of a SHA-256 digest formatted with {:x}.
HashHexLen == 64

(* ------------------------- keys and signatures ------------------------- *)

\* The public keys of the wallets in play.
Addresses == {"A", "B"}

\* Option::None of a source key.
NoKey == "none"

\* Option::None of a signature.
NoSignature == [signer |-> "none", digest |-> <<>>, s |-> "s"]

\* Wallet::sign_prehashed: the wallet is named by its public key; the
\* signature it returns is the pair (r, s).
sign_prehashed(wallet, hash) == [signer |-> wallet, digest |-> hash, s |-> "s"]

\* The other signature of the same digest by the same key, (r, n - s), which
\* anyone computes from (r, s).
negate_s(signature) == [signature EXCEPT !.s = IF @ = "s" THEN "n-s" ELSE "s"]

\* VerifyingKey::verify_prehash(..).is_ok(): the check does not depend on
\* which of s and n - s the signature carries.
verify_prehash(key, hash, signature) ==
    signature.signer = key /\ signature.digest = hash

(* ----------------------------- transactions ---------------------------- *)

\* A digest that leaves the amount out.
calculate_hash_no_amount(tx) == <<tx.source, tx.destination>>

\* Transaction::calculate_hash: SHA-256 of (source, destination, amount).
calculate_hash(tx) == <<tx.source, tx.destination, tx.amount>>

\* Transaction::new
Transaction_new(sender_wallet, destination, amount) ==
    LET tx == [source |-> sender_wallet, destination |-> destination,
               amount |-> amount, signature |-> NoSignature]
    IN  [tx EXCEPT !.signature = sign_prehashed(sender_wallet, calculate_hash(tx))]

\* Transaction::new_coinbase
new_coinbase(destination, amount) ==
    [source |-> NoKey, destination |-> destination,
     amount |-> amount, signature |-> NoSignature]

\* is_valid that lets a source without a signature pass.
is_valid_unsigned_ok(tx) ==
    CASE tx.source # NoKey /\ tx.signature # NoSignature ->
            verify_prehash(tx.source, calculate_hash(tx), tx.signature)
      [] tx.signature = NoSignature -> TRUE
      [] OTHER -> FALSE

\* Transaction::is_valid
is_valid(tx) ==
    CASE tx.source # NoKey /\ tx.signature # NoSignature ->
            verify_prehash(tx.source, calculate_hash(tx), tx.signature)
      [] tx.source = NoKey /\ tx.signature = NoSignature -> TRUE
      [] OTHER -> FALSE

(* -------------------------------- blocks ------------------------------- *)

\* String::new(): the hash of a block that has not been mined.
EmptyHash == [zeros |-> 0, preimage |-> <<>>]

\* "0".to_string(): the previous_hash of the genesis block.
ZeroMarker == [zeros |-> 1, preimage |-> <<>>]

\* The number of times 2 divides n, at most HashHexLen.
RECURSIVE Valuation(_, _)
Valuation(n, acc) ==
    IF acc >= HashHexLen \/ n % 2 # 0 THEN acc ELSE Valuation(n \div 2, acc + 1)

\* The number of leading '0' characters of the digest of data: a fixed
\* function of the hashed tuple, the nonce included.
LeadingZeros(data) ==
    Valuation(data[1] + data[2] + Len(data[3]) + data[5] + data[6] + 1, 0)

\* format!("{:x}", Sha256::digest(data))
Sha256Hex(data) == [zeros |-> LeadingZeros(data), preimage |-> data]

\* A test that asks for one '0' more than the difficulty.
starts_with_zeros_strict(hash, d) == hash.zeros > d

\* new_hash.starts_with(&"0".repeat(d))
starts_with_zeros(hash, d) == hash.zeros >= d

\* Block::new; now is the reading of Utc::now().timestamp().
Block_new(index, transactions, previous_hash, block_difficulty, now) ==
    [index |-> index, timestamp |-> now, transactions |-> transactions,
     previous_hash |-> previous_hash, hash |-> EmptyHash, nonce |-> 0,
     difficulty |-> block_difficulty]

\* Block::prepare_hash_data
prepare_hash_data(block) ==
    <<block.index, block.timestamp, block.transactions, block.previous_hash,
      block.nonce, block.difficulty>>

\* The nonce search with `self.nonce += 1` also run on the committing pass:
\* the stored hash is the digest of the nonce before.
RECURSIVE mine_bump_on_commit(_)
mine_bump_on_commit(block) ==
    LET new_hash == Sha256Hex(prepare_hash_data(block))
    IN  IF starts_with_zeros(new_hash, block.difficulty)
        THEN [block EXCEPT !.hash = new_hash, !.nonce = @ + 1]
        ELSE mine_bump_on_commit([block EXCEPT !.nonce = @ + 1])

\* Block::mine: the nonce search.
RECURSIVE mine(_)
mine(block) ==
    LET new_hash == Sha256Hex(prepare_hash_data(block))
    IN  IF starts_with_zeros(new_hash, block.difficulty)
        THEN [block EXCEPT !.hash = new_hash]
        ELSE mine([block EXCEPT !.nonce = @ + 1])

\* One pass of the loop of Block::mine over the block held at chain[1]. The
\* loop is left once the hash is set. `self.nonce += 1` on the largest nonce
\* panics with overflow checks and wraps to 0 without them.
mine_iteration(overflow_checks) ==
    LET block == chain[1]
        new_hash == Sha256Hex(prepare_hash_data(block))
    IN  /\ block.hash = EmptyHash
        /\ result = "Ok"
        /\ IF starts_with_zeros(new_hash, block.difficulty)
           THEN /\ chain' = <<[block EXCEPT !.hash = new_hash]>>
                /\ UNCHANGED result
           ELSE IF block.nonce + 1 < 2 ^ NonceBits
           THEN /\ chain' = <<[block EXCEPT !.nonce = @ + 1]>>
                /\ UNCHANGED result
           ELSE IF overflow_checks
           THEN /\ result' = "Panic"
                /\ UNCHANGED chain
           ELSE /\ chain' = <<[block EXCEPT !.nonce = 0]>>
                /\ UNCHANGED result
        /\ UNCHANGED <<mempool, difficulty, tampered>>

(* ------------------------------ blockchain ----------------------------- *)

\* Blockchain::new that pushes the genesis block without mining it.
Blockchain_new_unmined(now) ==
    [chain |-> <<Block_new(0, <<>>, ZeroMarker, 2, now)>>,
     mempool |-> <<>>,
     difficulty |-> 2]

\* Blockchain::new, the fields of the value it returns.
Blockchain_new(now) ==
    [chain |-> <<mine(Block_new(0, <<>>, ZeroMarker, 2, now))>>,
     mempool |-> <<>>,
     difficulty |-> 2]

\* self.chain.last().unwrap()
last(ch) == ch[Len(ch)]

\* adjust_difficulty without the `self.difficulty > 1` guard.
adjust_difficulty_no_floor(ch, diff) ==
    LET latest_block == last(ch)
    IN  IF latest_block.index > 0
           /\ latest_block.index % DIFFICULTY_ADJUSTMENT_INTERVAL = 0
        THEN LET interval_start_block ==
                     ch[(latest_block.index - DIFFICULTY_ADJUSTMENT_INTERVAL) + 1]
                 time_taken == latest_block.timestamp - interval_start_block.timestamp
                 expected_time == DIFFICULTY_ADJUSTMENT_INTERVAL * TARGET_BLOCK_TIME_SECS
             IN  IF time_taken < expected_time \div 2 THEN diff + 1
                 ELSE IF time_taken > expected_time * 2 THEN diff - 1
                 ELSE diff
        ELSE diff

\* adjust_difficulty with `<=` in place of `<` in the speed-up test.
adjust_difficulty_inclusive(ch, diff) ==
    LET latest_block == last(ch)
    IN  IF latest_block.index > 0
           /\ latest_block.index % DIFFICULTY_ADJUSTMENT_INTERVAL = 0
        THEN LET interval_start_block ==
                     ch[(latest_block.index - DIFFICULTY_ADJUSTMENT_INTERVAL) + 1]
                 time_taken == latest_block.timestamp - interval_start_block.timestamp
                 expected_time == DIFFICULTY_ADJUSTMENT_INTERVAL * TARGET_BLOCK_TIME_SECS
             IN  IF time_taken <= expected_time \div 2 THEN diff + 1
                 ELSE IF time_taken > expected_time * 2 /\ diff > 1 THEN diff - 1
                 ELSE diff
        ELSE diff

\* adjust_difficulty keyed on the chain length instead of the latest index:
\* it fires one mining call early.
adjust_difficulty_at_length(ch, diff) ==
    LET latest_block == last(ch)
    IN  IF Len(ch) % DIFFICULTY_ADJUSTMENT_INTERVAL = 0
        THEN LET interval_start_block ==
                     ch[(Len(ch) - DIFFICULTY_ADJUSTMENT_INTERVAL) + 1]
                 time_taken == latest_block.timestamp - interval_start_block.timestamp
                 expected_time == DIFFICULTY_ADJUSTMENT_INTERVAL * TARGET_BLOCK_TIME_SECS
             IN  IF time_taken < expected_time \div 2 THEN diff + 1
                 ELSE IF time_taken > expected_time * 2 /\ diff > 1 THEN diff - 1
                 ELSE diff
        ELSE diff

\* Blockchain::adjust_difficulty: the value of self.difficulty after the call.
adjust_difficulty(ch, diff) ==
    LET latest_block == last(ch)
    IN  IF latest_block.index > 0
           /\ latest_block.index % DIFFICULTY_ADJUSTMENT_INTERVAL = 0
        THEN LET interval_start_block ==
                     ch[(latest_block.index - DIFFICULTY_ADJUSTMENT_INTERVAL) + 1]
                 time_taken == latest_block.timestamp - interval_start_block.timestamp
                 expected_time == DIFFICULTY_ADJUSTMENT_INTERVAL * TARGET_BLOCK_TIME_SECS
             IN  IF time_taken < expected_time \div 2 THEN diff + 1
                 ELSE IF time_taken > expected_time * 2 /\ diff > 1 THEN diff - 1
                 ELSE diff
        ELSE diff

\* The reward pushed at the end instead of inserted at position 0.
transactions_for_block_reward_last(pool, reward_tx) == pool \o <<reward_tx>>

\* mine_pending_transactions: the transaction list of the new block.
transactions_for_block(pool, reward_tx) == <<reward_tx>> \o pool

\* The hash of the first block instead of the last.
previous_hash_of_first_block(ch) == ch[1].hash

\* mine_pending_transactions: the previous_hash of the new block.
previous_hash_of_new_block(ch) == last(ch).hash

\* add_transaction without the is_valid test.
add_transaction_unchecked(transaction) ==
    /\ mempool' = Append(mempool, transaction)
    /\ result' = "Ok"
    /\ UNCHANGED <<chain, difficulty, tampered>>

\* add_transaction that pushes before it tests.
add_transaction_push_first(transaction) ==
    /\ mempool' = Append(mempool, transaction)
    /\ result' = IF is_valid(transaction) THEN "Ok" ELSE "Err"
    /\ UNCHANGED <<chain, difficulty, tampered>>

\* Blockchain::add_transaction
add_transaction(transaction) ==
    IF ~is_valid(transaction)
    THEN /\ result' = "Err"
         /\ UNCHANGED <<chain, mempool, difficulty, tampered>>
    ELSE /\ mempool' = Append(mempool, transaction)
         /\ result' = "Ok"
         /\ UNCHANGED <<chain, difficulty, tampered>>

\* mine_pending_transactions that builds the block with the difficulty read
\* before the adjustment.
mine_pending_transactions_stale_difficulty(miner_address, now) ==
    LET reward_tx == new_coinbase(miner_address, MINING_REWARD)
        txs == transactions_for_block(mempool, reward_tx)
        new_difficulty == adjust_difficulty(chain, difficulty)
        new_block == mine(Block_new(Len(chain), txs,
                                    previous_hash_of_new_block(chain),
                                    difficulty, now))
    IN  /\ result' = "Ok"
        /\ mempool' = <<>>
        /\ difficulty' = new_difficulty
        /\ chain' = Append(chain, new_block)
        /\ UNCHANGED tampered

\* mine_pending_transactions that numbers the new block from the index of
\* the last one, two further.
mine_pending_transactions_skip_index(miner_address, now) ==
    LET reward_tx == new_coinbase(miner_address, MINING_REWARD)
        txs == transactions_for_block(mempool, reward_tx)
        new_difficulty == adjust_difficulty(chain, difficulty)
        new_block == mine(Block_new(last(chain).index + 2, txs,
                                    previous_hash_of_new_block(chain),
                                    new_difficulty, now))
    IN  /\ result' = "Ok"
        /\ mempool' = <<>>
        /\ difficulty' = new_difficulty
        /\ chain' = Append(chain, new_block)
        /\ UNCHANGED tampered

\* mine_pending_transactions that returns early when the pool is empty.
mine_pending_transactions_skip_empty(miner_address, now) ==
    LET reward_tx == new_coinbase(miner_address, MINING_REWARD)
        txs == transactions_for_block(mempool, reward_tx)
        new_difficulty == adjust_difficulty(chain, difficulty)
        new_block == mine(Block_new(Len(chain), txs,
                                    previous_hash_of_new_block(chain),
                                    new_difficulty, now))
    IN  IF mempool = <<>>
        THEN /\ result' = "Ok"
             /\ UNCHANGED <<chain, mempool, difficulty, tampered>>
        ELSE /\ result' = "Ok"
             /\ mempool' = <<>>
             /\ difficulty' = new_difficulty
             /\ chain' = Append(chain, new_block)
             /\ UNCHANGED tampered

\* mine_pending_transactions that puts the new block in the place of the
\* last one instead of pushing it.
mine_pending_transactions_overwrite(miner_address, now) ==
    LET reward_tx == new_coinbase(miner_address, MINING_REWARD)
        txs == transactions_for_block(mempool, reward_tx)
        new_difficulty == adjust_difficulty(chain, difficulty)
        new_block == mine(Block_new(Len(chain), txs,
                                    previous_hash_of_new_block(chain),
                                    new_difficulty, now))
    IN  /\ result' = "Ok"
        /\ mempool' = <<>>
        /\ difficulty' = new_difficulty
        /\ chain' = IF Len(chain) > 1
                    THEN [chain EXCEPT ![Len(chain)] = new_block]
                    ELSE Append(chain, new_block)
        /\ UNCHANGED tampered

\* Blockchain::mine_pending_transactions
mine_pending_transactions(miner_address, now) ==
    LET reward_tx == new_coinbase(miner_address, MINING_REWARD)
        txs == transactions_for_block(mempool, reward_tx)
        new_difficulty == adjust_difficulty(chain, difficulty)
        new_block == mine(Block_new(Len(chain), txs,
                                    previous_hash_of_new_block(chain),
                                    new_difficulty, now))
    IN  /\ result' = "Ok"
        /\ mempool' = <<>>
        /\ difficulty' = new_difficulty
        /\ chain' = Append(chain, new_block)
        /\ UNCHANGED tampered

\* is_chain_valid that also recomputes the proof-of-work of each block.
is_chain_valid_rehash(ch) ==
    \A i \in 2..Len(ch) :
        /\ ch[i].previous_hash = ch[i - 1].hash
        /\ \A k \in 1..Len(ch[i].transactions) : is_valid(ch[i].transactions[k])
        /\ ch[i].hash = Sha256Hex(prepare_hash_data(ch[i]))
        /\ starts_with_zeros(ch[i].hash, ch[i].difficulty)

\* is_chain_valid whose loop stops one block early.
is_chain_valid_short_loop(ch) ==
    \A i \in 2..(Len(ch) - 1) :
        /\ ch[i].previous_hash = ch[i - 1].hash
        /\ \A k \in 1..Len(ch[i].transactions) : is_valid(ch[i].transactions[k])

\* Blockchain::is_chain_valid
is_chain_valid(ch) ==
    \A i \in 2..Len(ch) :
        /\ ch[i].previous_hash = ch[i - 1].hash
        /\ \A k \in 1..Len(ch[i].transactions) : is_valid(ch[i].transactions[k])

(* ------------------------------- balances ------------------------------ *)

\* 2^(WordBits - 1): the first amount that does not fit the signed word.
SignBit == 2 ^ (WordBits - 1)

\* `amount as i64`: the same bits read as a signed word.
as_i64(amount) == IF amount >= SignBit THEN amount - 2 * SignBit ELSE amount

\* The outcome of `balance += v` / `balance -= v` whose exact result is x:
\* with overflow checks (the dev profile) an overflow panics, without them
\* (the release profile) it wraps.
checked_i64(x, overflow_checks) ==
    IF x >= -SignBit /\ x < SignBit
    THEN [panicked |-> FALSE, value |-> x]
    ELSE IF overflow_checks
         THEN [panicked |-> TRUE, value |-> 0]
         ELSE [panicked |-> FALSE,
               value |-> ((x + SignBit) % (2 * SignBit)) - SignBit]

\* The body of the inner loop of get_balance for one transaction.
balance_step(acc, tx, address, overflow_checks) ==
    LET credited ==
            IF ~acc.panicked /\ tx.destination = address
            THEN checked_i64(acc.value + as_i64(tx.amount), overflow_checks)
            ELSE acc
    IN  IF ~credited.panicked /\ tx.source # NoKey /\ tx.source = address
        THEN checked_i64(credited.value - as_i64(tx.amount), overflow_checks)
        ELSE credited

\* for block in &self.chain { for tx in &block.transactions { .. } }
RECURSIVE all_transactions(_)
all_transactions(ch) ==
    IF ch = <<>> THEN <<>>
    ELSE Head(ch).transactions \o all_transactions(Tail(ch))

RECURSIVE balance_fold(_, _, _, _)
balance_fold(acc, txs, address, overflow_checks) ==
    IF txs = <<>> THEN acc
    ELSE balance_fold(balance_step(acc, Head(txs), address, overflow_checks),
                      Tail(txs), address, overflow_checks)

\* Blockchain::get_balance: [panicked, value], value being what it returns.
get_balance(address, overflow_checks) ==
    balance_fold([panicked |-> FALSE, value |-> 0], all_transactions(chain),
                 address, overflow_checks)

(* ------------------------- inputs of the runs -------------------------- *)

\* Transactions a caller builds with Transaction::new and new_coinbase.
WellFormedTxs ==
    { Transaction_new("A", "B", 40),
      Transaction_new("A", "A", 40),
      Transaction_new("B", "A", SignBit),
      new_coinbase("B", 7) }

\* Transactions whose fields were set or altered by hand: a source without a
\* signature, a signature without a source, a signature of another key, and
\* an amount changed after signing.
MalformedTxs ==
    { [Transaction_new("A", "B", 40) EXCEPT !.signature = NoSignature],
      [Transaction_new("A", "B", 40) EXCEPT !.source = NoKey],
      [Transaction_new("A", "B", 40) EXCEPT
          !.signature = sign_prehashed("B", <<"A", "B", 40>>)],
      [Transaction_new("A", "B", 40) EXCEPT !.amount = 41] }

TxInputs == WellFormedTxs \cup MalformedTxs

\* Readings of Utc::now().timestamp(): their differences include 149, 150,
\* 600 and 601, on both sides of the thresholds 150 and 600, each of them
\* also after an interval of 150 or of 601, and the negatives.
ClockReadings == {0, 150, 601, 750, 1202}

\* Readings used while the chain is short.
ShortClockReadings == {0, 150}

\* Values written over a stored previous_hash: the marker, the empty string,
\* a digest of unrelated data and the hashes the chain holds.
HashValues ==
    {ZeroMarker, EmptyHash, [zeros |-> 0, preimage |-> <<"unrelated">>]}
        \cup {chain[j].hash : j \in 1..Len(chain)}

\* The number of user transactions in the pool and in the blocks.
RECURSIVE AcceptedCount(_)
AcceptedCount(ch) ==
    IF ch = <<>> THEN Len(mempool)
    ELSE (IF Head(ch).transactions = <<>> THEN 0
          ELSE Len(Head(ch).transactions) - 1) + AcceptedCount(Tail(ch))

(* --------------------------- specifications ---------------------------- *)

\* Blockchain::new() at clock reading now.
InitAt(now) ==
    /\ chain = Blockchain_new(now).chain
    /\ mempool = Blockchain_new(now).mempool
    /\ difficulty = Blockchain_new(now).difficulty
    /\ result = "Ok"
    /\ tampered = -1

Init == \E now \in ShortClockReadings : InitAt(now)

AddTransaction ==
    \E tx \in TxInputs :
        /\ is_valid(tx) => AcceptedCount(chain) < MaxTxs
        /\ add_transaction(tx)

\* The clock of these runs does not go back.
MinePendingTransactions ==
    \E miner \in Addresses, now \in ShortClockReadings :
        /\ Len(chain) < MaxChain
        /\ now >= last(chain).timestamp
        /\ mine_pending_transactions(miner, now)

Next == AddTransaction \/ MinePendingTransactions

Spec == Init /\ [][Next]_vars

(* Long runs, for the difficulty adjustment.  Every block whose index is a *)
(* multiple of half the adjustment interval reads the clock freely (it may *)
(* go back); between them the clock stands still.  A transaction is        *)
(* submitted only while the latest block is at an adjustment point.        *)

InitDifficulty == \E now \in ClockReadings : InitAt(now)

LongClockReadings(index) ==
    IF index % (DIFFICULTY_ADJUSTMENT_INTERVAL \div 2) = 0
    THEN ClockReadings
    ELSE {last(chain).timestamp}

AddTransactionLong ==
    /\ mempool = <<>>
    /\ last(chain).index % DIFFICULTY_ADJUSTMENT_INTERVAL = 0
    /\ add_transaction(Transaction_new("A", "B", 40))

MinePendingTransactionsLong ==
    \E now \in LongClockReadings(Len(chain)) :
        /\ Len(chain) < MaxLongChain
        /\ mine_pending_transactions("A", now)

NextDifficulty == AddTransactionLong \/ MinePendingTransactionsLong

SpecDifficulty == InitDifficulty /\ [][NextDifficulty]_vars

(* Runs that end by overwriting one stored previous_hash, as a caller that *)
(* holds the chain (its fields are pub) or edits the snapshot can.         *)

\* chain[index].previous_hash = value, by a caller.
tamper_previous_hash(index, value) ==
    /\ chain' = [chain EXCEPT ![index + 1].previous_hash = value]
    /\ tampered' = index
    /\ UNCHANGED <<mempool, difficulty, result>>

AddTransactionTamper ==
    \E tx \in {Transaction_new("A", "B", 40),
               [Transaction_new("A", "B", 40) EXCEPT !.amount = 41]} :
        /\ tampered = -1
        /\ AcceptedCount(chain) < MaxTxs
        /\ add_transaction(tx)

MinePendingTransactionsTamper ==
    /\ tampered = -1
    /\ Len(chain) < MaxChain
    /\ mine_pending_transactions("A", 0)

TamperPreviousHash ==
    \E index \in 0..(Len(chain) - 1), value \in HashValues :
        /\ tampered = -1
        /\ value # chain[index + 1].previous_hash
        /\ tamper_previous_hash(index, value)

NextTamper ==
    AddTransactionTamper \/ MinePendingTransactionsTamper \/ TamperPreviousHash

SpecTamper == Init /\ [][NextTamper]_vars

(* Runs that end by overwriting fields of one block of the chain.          *)

\* chain[index] = block, by a caller that wrote the pub fields of the block.
alter_block(index, block) ==
    /\ chain' = [chain EXCEPT ![index + 1] = block]
    /\ tampered' = index
    /\ UNCHANGED <<mempool, difficulty, result>>

\* Alterations of fields is_chain_valid does not read, as (index, block)
\* pairs: the nonce, timestamp, index or difficulty of any block, the amount
\* or destination of the coinbase of a mined block, the stored hash of the
\* last block, the transaction list of the genesis block.
UncheckedAlterations(ch) ==
    LET n == Len(ch)
    IN  { <<i - 1, [ch[i] EXCEPT !.nonce = @ + 1]>> : i \in 1..n }
        \cup { <<i - 1, [ch[i] EXCEPT !.timestamp = @ + 1]>> : i \in 1..n }
        \cup { <<i - 1, [ch[i] EXCEPT !.index = @ + 5]>> : i \in 1..n }
        \cup { <<i - 1, [ch[i] EXCEPT !.difficulty = @ + 1]>> : i \in 1..n }
        \cup { <<i - 1, [ch[i] EXCEPT !.transactions[1].amount = 10 * MINING_REWARD]>> :
                   i \in 2..n }
        \cup { <<i - 1, [ch[i] EXCEPT !.transactions[1].destination = "B"]>> :
                   i \in 2..n }
        \cup { <<n - 1, [ch[n] EXCEPT !.hash = v]>> : v \in HashValues \ {ch[n].hash} }
        \cup { <<0, [ch[1] EXCEPT !.transactions = <<tx>>]>> : tx \in TxInputs }

\* Alterations of what is_chain_valid reads: the previous_hash of a block
\* after the genesis block, the stored hash of a block that has a successor,
\* a malformed transaction added to a block after the genesis block.
CheckedAlterations(ch) ==
    LET n == Len(ch)
    IN  UNION { { <<i - 1, [ch[i] EXCEPT !.previous_hash = v]>> :
                      v \in HashValues \ {ch[i - 1].hash} } : i \in 2..n }
        \cup UNION { { <<i - 1, [ch[i] EXCEPT !.hash = v]>> :
                           v \in HashValues \ {ch[i].hash} } : i \in 1..(n - 1) }
        \cup { <<i - 1, [ch[i] EXCEPT !.transactions = Append(@, tx)]>> :
                   i \in 2..n, tx \in MalformedTxs }

AlterBlock ==
    \E alteration \in UncheckedAlterations(chain) \cup CheckedAlterations(chain) :
        /\ tampered = -1
        /\ alter_block(alteration[1], alteration[2])

NextAlter == AddTransactionTamper \/ MinePendingTransactionsTamper \/ AlterBlock

SpecAlter == Init /\ [][NextAlter]_vars

\* Runs that submit one transaction of any shape to a fresh chain: every
\* combination of a source (or none), a destination, an amount and a
\* signature (or none) by any key over the digest of any such combination,
\* in either of its two forms.
TxAmounts == {40, 41, SignBit}

Signatures ==
    LET signed == { Transaction_new(w, d, a).signature :
                        w \in Addresses, d \in Addresses, a \in TxAmounts }
        by_any_key == { [sig EXCEPT !.signer = k] : sig \in signed, k \in Addresses }
    IN  by_any_key \cup { negate_s(sig) : sig \in by_any_key }

TxShapes ==
    [source : Addresses \cup {NoKey}, destination : Addresses,
     amount : TxAmounts, signature : Signatures \cup {NoSignature}]

InitTx == \E now \in ClockReadings : InitAt(now)

AddTransactionTx ==
    \E tx \in TxShapes :
        /\ mempool = <<>>
        /\ add_transaction(tx)

NextTx == AddTransactionTx

SpecTx == InitTx /\ [][NextTx]_vars

\* Runs of Block::mine alone: a block built by Block::new with a difficulty
\* the caller chose, among them one above the length of a digest, held at
\* chain[1] while the loop runs.
MineDifficulties == {0, 1, 2, 3, HashHexLen + 1}

InitMine ==
    \E index \in {0, 1}, now \in ShortClockReadings, d \in MineDifficulties,
       txs \in {<<>>, <<new_coinbase("A", MINING_REWARD)>>} :
        /\ chain = <<Block_new(index, txs, ZeroMarker, d, now)>>
        /\ mempool = <<>>
        /\ difficulty = d
        /\ result = "Ok"
        /\ tampered = -1

MineIteration == \E overflow_checks \in BOOLEAN : mine_iteration(overflow_checks)

NextMine == MineIteration

\* The loop has no wait in it: a pass that can run does run.
SpecMine == InitMine /\ [][NextMine]_vars /\ WF_vars(NextMine)

(* ------------------------------ properties ----------------------------- *)

\* The (miner, clock reading) pairs of the mining calls of the runs.
MiningInputs == Addresses \X (ClockReadings \cup ShortClockReadings)

\* C1: in every state reached from Blockchain::new() by add_transaction
\* (accepted or rejected) and mine_pending_transactions calls,
\* is_chain_valid() returns true.
C1_ChainValid == is_chain_valid(chain)

\* A chain with two mined blocks, the last one carrying user transactions,
\* right after a rejected submission.
C1_Witness ==
    /\ Len(chain) = 3
    /\ Len(chain[3].transactions) >= 2
    /\ result = "Err"
    /\ is_chain_valid(chain)

\* C2: every mine_pending_transactions call ends with the pool empty, the
\* chain one block longer and the new last block's previous_hash equal to
\* the hash of the block that was last before the call; hence in every
\* state each block after the first names the hash of its predecessor.
C2_MiningLinksBlocks ==
    /\ [](\A i \in 2..Len(chain) : chain[i].previous_hash = chain[i - 1].hash)
    /\ [][\A in \in MiningInputs :
            mine_pending_transactions(in[1], in[2]) =>
                /\ mempool' = <<>>
                /\ Len(chain') = Len(chain) + 1
                /\ chain'[Len(chain')].previous_hash = chain[Len(chain)].hash]_vars

\* A second block was mined from a pool that was not empty.
C2_Witness ==
    /\ Len(chain) = 3
    /\ mempool = <<>>
    /\ Len(chain[3].transactions) >= 2
    /\ chain[3].previous_hash = chain[2].hash
    /\ chain[2].hash # chain[1].hash

\* C3: the block appended by mine_pending_transactions(miner) holds one
\* coinbase transaction (no source, no signature, destination miner, amount
\* 100) followed by the pool as it was at the start of the call, in order,
\* nothing dropped, duplicated or reordered.
C3_BlockIsRewardThenPool ==
    [][\A in \in MiningInputs :
          mine_pending_transactions(in[1], in[2]) =>
              chain'[Len(chain')].transactions =
                  <<[source |-> NoKey, destination |-> in[1], amount |-> 100,
                     signature |-> NoSignature]>> \o mempool]_vars

\* A block mined from a pool of two different transactions.
C3_Witness ==
    \E i \in 2..Len(chain) :
        /\ Len(chain[i].transactions) = 3
        /\ chain[i].transactions[1].source = NoKey
        /\ chain[i].transactions[2] # chain[i].transactions[3]
        /\ chain[i].transactions[2].source # NoKey

\* C4: add_transaction(tx) returns an error exactly when tx.is_valid() is
\* false and then changes nothing of pool, chain and difficulty; otherwise
\* it returns Ok, appends tx at the end of the pool and leaves chain and
\* difficulty alone, whatever the balances, the pool and the chain are.
C4_AddTransactionOutcome ==
    [][\A tx \in TxInputs :
          add_transaction(tx) =>
              /\ chain' = chain
              /\ difficulty' = difficulty
              /\ (result' = "Err") = ~is_valid(tx)
              /\ (result' = "Ok") = is_valid(tx)
              /\ mempool' = IF is_valid(tx) THEN Append(mempool, tx) ELSE mempool]_vars

\* A rejection that follows the acceptance of a transfer its sender cannot
\* cover (no block pays the sender).
C4_Witness ==
    /\ result = "Err"
    /\ mempool # <<>>
    /\ mempool[Len(mempool)].source = "A"
    /\ mempool[Len(mempool)].amount = 40
    /\ \A i \in 1..Len(chain) : \A k \in 1..Len(chain[i].transactions) :
           chain[i].transactions[k].destination # "A"

\* C5 as stated: replacing the stored previous_hash of any one block, the
\* genesis block included, by a different value makes is_chain_valid()
\* return false.
C5_AnyBlockTamperDetected == tampered # -1 => ~is_chain_valid(chain)

\* C5 as the code has it: replacing the stored previous_hash of a block
\* with index >= 1 by a different value makes is_chain_valid() return
\* false; replacing that of the genesis block leaves it true.
C5_LinkedBlockTamperDetected ==
    /\ tampered >= 1 => ~is_chain_valid(chain)
    /\ tampered = 0 => is_chain_valid(chain)

\* The previous_hash of the last of three blocks was overwritten.
C5_Witness ==
    /\ Len(chain) = 3
    /\ tampered = 2
    /\ chain[3].previous_hash # chain[2].hash
    /\ ~is_chain_valid(chain)

\* C6: in every state reached through new, add_transaction and
\* mine_pending_transactions, no transaction of the pool lacks a source,
\* and every block after the genesis block holds exactly one transaction
\* without a source, its first.
C6_CoinbaseOnlyFromMining ==
    /\ \A k \in 1..Len(mempool) : mempool[k].source # NoKey
    /\ \A i \in 2..Len(chain) :
           /\ chain[i].transactions # <<>>
           /\ \A k \in 1..Len(chain[i].transactions) :
                  (chain[i].transactions[k].source = NoKey) = (k = 1)

\* C7: the difficulty is 2 on a fresh chain and at least 1 in every state,
\* whatever the timestamps of the blocks are.
C7_DifficultyFloor ==
    /\ difficulty >= 1
    /\ Len(chain) = 1 => difficulty = 2

\* The difficulty fell to 1 at block 10 and the adjustment at block 20,
\* again after more than 600 seconds, left it at 1.
C7_Witness ==
    /\ Len(chain) = 22
    /\ chain[11].timestamp - chain[1].timestamp > 600
    /\ chain[21].timestamp - chain[11].timestamp > 600
    /\ chain[12].difficulty = 1
    /\ difficulty = 1

\* The difficulty C8 gives for a mining call made on chain ch at difficulty
\* diff, k being the index of the latest block.
C8_Expected(ch, diff) ==
    LET k == Len(ch) - 1
        elapsed == ch[k + 1].timestamp - ch[k - 10 + 1].timestamp
    IN  IF k = 0 \/ k % 10 # 0 THEN diff
        ELSE IF elapsed < 150 THEN diff + 1
        ELSE IF elapsed > 600 /\ diff > 1 THEN diff - 1
        ELSE diff

\* C8: a mining call made while the latest block has index k leaves the
\* difficulty unchanged if k is 0 or no multiple of 10; otherwise, with
\* elapsed = timestamp(k) - timestamp(k - 10), adds 1 if elapsed < 150,
\* subtracts 1 if elapsed > 600 and difficulty > 1, and changes nothing in
\* every other case. The pool has no part in it.
C8_AdjustmentRule ==
    [][\A in \in MiningInputs :
          mine_pending_transactions(in[1], in[2]) =>
              difficulty' = C8_Expected(chain, difficulty)]_vars

\* Mining calls at both adjustment points with a transaction in the pool:
\* elapsed exactly 150 at block 10 (no change), then exactly 600 at block 20
\* (no change).
C8_Witness ==
    /\ Len(chain) = 22
    /\ chain[11].timestamp - chain[1].timestamp = 150
    /\ chain[21].timestamp - chain[11].timestamp = 600
    /\ Len(chain[12].transactions) = 2
    /\ Len(chain[22].transactions) = 2
    /\ chain[12].difficulty = 2
    /\ difficulty = 2

\* Blocks 0..10 carry timestamps less than 150 seconds apart.
C9_FirstIntervalFast ==
    /\ Len(chain) >= 11
    /\ \A i, j \in 1..11 : chain[i].timestamp - chain[j].timestamp < 150

\* C9: from a fresh chain the difficulty stays 2 through every mining call
\* up to the one that appends block 10; if blocks 0..10 are less than 150
\* seconds apart, the call that supersedes block 10 makes it 3, one more
\* and no further until the next adjustment point; every mining call appends
\* a block, so the difficulty changes only in the single call made on a
\* latest index that is a positive multiple of 10.
C9_FastStartRaisesOnce ==
    /\ [](/\ Len(chain) <= 11 => difficulty = 2
          /\ \A i \in 1..Len(chain) : i <= 11 => chain[i].difficulty = 2
          /\ (C9_FirstIntervalFast /\ Len(chain) >= 12) =>
                 /\ chain[12].difficulty = 3
                 /\ Len(chain) <= 21 => difficulty = 3)
    /\ [][/\ \A in \in MiningInputs :
               mine_pending_transactions(in[1], in[2]) =>
                   chain'[Len(chain')].index = chain[Len(chain)].index + 1
          /\ difficulty' # difficulty =>
                 /\ Len(chain') = Len(chain) + 1
                 /\ chain[Len(chain)].index > 0
                 /\ chain[Len(chain)].index % 10 = 0]_vars

\* Block 11 was mined after a fast first interval.
C9_Witness ==
    /\ Len(chain) = 12
    /\ C9_FirstIntervalFast
    /\ chain[11].difficulty = 2
    /\ chain[12].difficulty = 3
    /\ difficulty = 3

\* The sum of the amounts of the transactions of txs paid to address.
RECURSIVE Received(_, _)
Received(txs, address) ==
    IF txs = <<>> THEN 0
    ELSE (IF Head(txs).destination = address THEN Head(txs).amount ELSE 0)
         + Received(Tail(txs), address)

\* The sum of the amounts of the transactions of txs paid by address.
RECURSIVE Sent(_, _)
Sent(txs, address) ==
    IF txs = <<>> THEN 0
    ELSE (IF Head(txs).source = address THEN Head(txs).amount ELSE 0)
         + Sent(Tail(txs), address)

\* C10: get_balance(a) is the sum of the amounts of the transactions in
\* mined blocks whose destination is a, minus the sum of the amounts of
\* those whose source is a; the pool does not count.
C10_BalanceIsReplaySum ==
    \A a \in Addresses, overflow_checks \in BOOLEAN :
        LET mined == all_transactions(chain)
            outcome == get_balance(a, overflow_checks)
        IN  /\ ~outcome.panicked
            /\ outcome.value = Received(mined, a) - Sent(mined, a)

(* ---------------------- C11: exactness of the replay -------------------- *)

\* The balance get_balance holds after the first n mined transactions.
balance_after(n, address, overflow_checks) ==
    balance_fold([panicked |-> FALSE, value |-> 0],
                 SubSeq(all_transactions(chain), 1, n), address, overflow_checks)

\* C11: get_balance never fails and is exact over the whole range of unsigned
\* amounts: under either build profile the replay does not panic, and each
\* mined transaction moves the balance of an address by exactly its amount,
\* up if the address is the destination, down if it is the source, without
\* wrap-around.
C11_BalanceExactNoFailure ==
    \A a \in Addresses, overflow_checks \in BOOLEAN :
        LET mined == all_transactions(chain)
        IN  \A n \in 1..Len(mined) :
                LET before == balance_after(n - 1, a, overflow_checks)
                    after == balance_after(n, a, overflow_checks)
                    received == IF mined[n].destination = a THEN mined[n].amount ELSE 0
                    sent == IF mined[n].source = a THEN mined[n].amount ELSE 0
                IN  /\ ~after.panicked
                    /\ after.value = before.value + received - sent

(* ------------------------ C12: blocks are mined ------------------------- *)

\* C12: every block of the chain is mined: its stored hash is not the empty
\* string, it is the digest of the block's own (index, timestamp,
\* transactions, previous_hash, nonce, difficulty), and it begins with as
\* many '0' characters as the block's difficulty field.
C12_EveryBlockMined ==
    \A i \in 1..Len(chain) :
        /\ chain[i].hash # EmptyHash
        /\ chain[i].hash = Sha256Hex(prepare_hash_data(chain[i]))
        /\ starts_with_zeros(chain[i].hash, chain[i].difficulty)

\* A chain holding blocks of difficulty 2, 3 and 2 again, block 11 with a
\* pool transaction and found after a search of several nonces.
C12_Witness ==
    /\ Len(chain) = 22
    /\ chain[12].difficulty = 3
    /\ chain[12].nonce > 1
    /\ Len(chain[12].transactions) = 2
    /\ chain[22].difficulty = 2

(* ---------------------- C13: the search terminates ---------------------- *)

\* The digest of block with nonce n passes the test of its difficulty.
qualifying_nonce(block, n) ==
    starts_with_zeros(Sha256Hex(prepare_hash_data([block EXCEPT !.nonce = n])),
                      block.difficulty)

\* The block under search has left the loop with its hash set.
Mined == chain[1].hash # EmptyHash

\* C13 as stated: for every difficulty d >= 0 and every block content the
\* search from nonce 0 eventually reaches the Mined state, before the nonce
\* counter is exhausted, and for d = 0 it commits with nonce 0.
C13_MineTerminates ==
    /\ <>Mined
    /\ [](result # "Panic")
    /\ [](chain[1].difficulty = 0 => chain[1].nonce = 0)

\* C13 amended: the search reaches Mined exactly when some nonce of the
\* counter's range yields a digest with d leading '0' characters, and then
\* commits the smallest one with its digest; for d = 0 that is nonce 0 on the
\* first pass; for d above the 64 characters of a digest no nonce qualifies,
\* and the search never reaches Mined: it goes on until the counter overflows.
C13_MineOutcome ==
    /\ [](LET block == chain[1]
              some_qualifies == \E n \in 0..(2 ^ NonceBits - 1) : qualifying_nonce(block, n)
          IN  /\ block.difficulty = 0 => block.nonce = 0
              /\ block.difficulty > HashHexLen => ~some_qualifies
              /\ Mined =>
                    /\ block.hash = Sha256Hex(prepare_hash_data(block))
                    /\ qualifying_nonce(block, block.nonce)
                    /\ \A n \in 0..(block.nonce - 1) : ~qualifying_nonce(block, n)
              /\ ~some_qualifies => ~Mined
              /\ result = "Panic" => ~some_qualifies)
    /\ [][chain[1].difficulty = 0 => Mined']_vars
    /\ (\E n \in 0..(2 ^ NonceBits - 1) : qualifying_nonce(chain[1], n)) ~> Mined

\* A search at a difficulty above the length of a digest that ran through
\* every nonce and stopped on the overflow of the counter.
C13_Witness ==
    /\ chain[1].difficulty > HashHexLen
    /\ chain[1].nonce = 2 ^ NonceBits - 1
    /\ result = "Panic"
    /\ ~Mined

(* -------------------------- C14: the new chain -------------------------- *)

\* The block at position 0 is the genesis block Blockchain::new builds.
GenesisBlock ==
    /\ chain[1].index = 0
    /\ chain[1].transactions = <<>>
    /\ chain[1].previous_hash = ZeroMarker
    /\ chain[1].difficulty = 2
    /\ chain[1].hash # EmptyHash
    /\ starts_with_zeros(chain[1].hash, 2)

\* C14: Blockchain::new() yields a chain of length 1, an empty pool and
\* difficulty 2; its single block has index 0, no transactions, the marker
\* "0" as previous_hash, difficulty 2 and a hash that starts with two '0'
\* characters. The block at position 0 stays that block.
C14_NewYieldsGenesis ==
    /\ Len(chain) = 1 /\ mempool = <<>> /\ difficulty = 2 /\ GenesisBlock
    /\ []GenesisBlock

\* The state Blockchain::new() returns, the genesis nonce found after a
\* search of several passes.
C14_Witness ==
    /\ Len(chain) = 1
    /\ mempool = <<>>
    /\ difficulty = 2
    /\ result = "Ok"
    /\ chain[1].timestamp = 150
    /\ chain[1].nonce > 1
    /\ chain[1].hash = Sha256Hex(prepare_hash_data(chain[1]))

(* ------------------- C15: validity of a transaction --------------------- *)

\* The validity the claim assigns to a transaction from the shape of its
\* (source, signature) pair.
C15_Expected(tx) ==
    IF tx.source # NoKey /\ tx.signature # NoSignature
    THEN /\ tx.signature.signer = tx.source
         /\ tx.signature.digest = <<tx.source, tx.destination, tx.amount>>
    ELSE tx.source = NoKey /\ tx.signature = NoSignature

\* C15: is_valid() is decided by the (source, signature) shape: with both
\* present it is true iff the signature verifies against the digest of
\* (source, destination, amount) under the source key, with both absent it is
\* true, with exactly one present it is false; every transaction built by
\* Transaction::new(wallet, destination, amount) is valid. Observed through
\* add_transaction, which accepts exactly the valid transactions.
C15_ValidityByShape ==
    [][/\ \A tx \in TxShapes :
             add_transaction(tx) => ((result' = "Ok") <=> C15_Expected(tx))
       /\ \A w \in Addresses, d \in Addresses, a \in TxAmounts :
             add_transaction(Transaction_new(w, d, a)) =>
                 /\ result' = "Ok"
                 /\ mempool' = Append(mempool, Transaction_new(w, d, a))]_vars

\* A transaction built by Transaction::new with the largest amounts, accepted.
C15_Witness ==
    /\ mempool = <<Transaction_new("B", "A", SignBit)>>
    /\ is_valid(mempool[1])
    /\ result = "Ok"

(* ------------------- C16: altered transactions -------------------------- *)

\* The transactions Transaction::new builds.
C16_Originals ==
    { Transaction_new(w, d, a) : w \in Addresses, d \in Addresses, a \in TxAmounts }

\* original with its destination, its amount or its source replaced by a
\* different one.
C16_FieldAltered(original) ==
    { [original EXCEPT !.destination = d] : d \in Addresses \ {original.destination} }
    \cup { [original EXCEPT !.amount = a] : a \in TxAmounts \ {original.amount} }
    \cup { [original EXCEPT !.source = k] : k \in Addresses \ {original.source} }

\* original with its signature replaced by a different signature.
C16_SignatureAltered(original) ==
    { [original EXCEPT !.signature = g] : g \in Signatures \ {original.signature} }

\* Every signed transaction of the pool carries a signature of the digest of
\* its own (source, destination, amount).
C16_DigestOfThreeFields ==
    \A i \in 1..Len(mempool) :
        mempool[i].source # NoKey =>
            mempool[i].signature.digest =
                <<mempool[i].source, mempool[i].destination, mempool[i].amount>>

C17_Expected(ch) ==
    \A i \in 1..(Len(ch) - 1) :
        /\ ch[i + 1].previous_hash = ch[(i - 1) + 1].hash
        /\ \A tx \in { ch[i + 1].transactions[k] : k \in 1..Len(ch[i + 1].transactions) } :
               is_valid(tx)

\* C17: is_chain_valid() is true exactly when, for every i in 1..len,
\* chain[i].previous_hash = chain[i-1].hash and every transaction of chain[i]
\* is valid. It reads nothing else: after an alteration, without re-mining,
\* of a block's nonce, timestamp, index or difficulty, of a coinbase amount
\* or destination, of the last block's stored hash or of the genesis block's
\* transaction list the chain is still reported valid, and after an
\* alteration of a link or of the validity of a transaction it is not.
C17_ChecksLinksAndSignaturesOnly ==
    /\ [](is_chain_valid(chain) <=> C17_Expected(chain))
    /\ [][/\ \A alteration \in UncheckedAlterations(chain) :
                alter_block(alteration[1], alteration[2]) =>
                    is_chain_valid(chain) /\ is_chain_valid(chain')
          /\ \A alteration \in CheckedAlterations(chain) :
                alter_block(alteration[1], alteration[2]) =>
                    is_chain_valid(chain) /\ ~is_chain_valid(chain')]_vars

\* A chain of three blocks in which block 1 was altered without re-mining (its
\* stored hash is no longer the digest of its fields) and that is_chain_valid
\* reports valid.
C17_Witness ==
    /\ Len(chain) = 3
    /\ tampered = 1
    /\ chain[2].hash # Sha256Hex(prepare_hash_data(chain[2]))
    /\ chain[3].previous_hash = chain[2].hash
    /\ is_chain_valid(chain)

(* ------------------------ C18: append-only chain ------------------------ *)

\* C18: the chain is append-only. Over every step the chain before is a
\* prefix of the chain after, block for block and field for field, and the
\* length does not decrease; add_transaction leaves the chain as it is; a
\* step that changes the chain is a mine_pending_transactions call and adds
\* exactly one block. (get_balance and is_chain_valid take &self: they are
\* operators over the state and make no step.)
C18_AppendOnly ==
    [][/\ Len(chain') >= Len(chain)
       /\ SubSeq(chain', 1, Len(chain)) = chain
       /\ \A tx \in TxInputs : add_transaction(tx) => chain' = chain
       /\ chain' # chain =>
             /\ Len(chain') = Len(chain) + 1
             /\ \E in \in MiningInputs : mine_pending_transactions(in[1], in[2])]_vars

\* Two mining calls, the first with a pool transaction, and a transaction
\* accepted since: the blocks mined first are still in place.
C18_Witness ==
    /\ Len(chain) = 3
    /\ chain[1].index = 0
    /\ Len(chain[2].transactions) = 2
    /\ Len(chain[3].transactions) = 1
    /\ chain[3].previous_hash = chain[2].hash
    /\ Len(mempool) = 1
    /\ result = "Ok"

(* ---------------------- C19: mining has no error ------------------------ *)

\* C19: mine_pending_transactions has no error outcome. Every call, from
\* whatever state and for whatever miner address, returns Ok and appends one
\* block, and when the pool is empty that block holds exactly one
\* transaction, the reward of the miner: the call is never a no-op.
C19_MiningNeverFails ==
    [][\A in \in MiningInputs :
           mine_pending_transactions(in[1], in[2]) =>
               /\ result' = "Ok"
               /\ Len(chain') = Len(chain) + 1
               /\ chain' # chain
               /\ mempool = <<>> =>
                      last(chain').transactions =
                          <<new_coinbase(in[1], MINING_REWARD)>>]_vars

\* Two mining calls on an empty pool, the second right after the first: each
\* appended a block that holds the reward alone.
C19_Witness ==
    /\ Len(chain) = 3
    /\ chain[2].transactions = <<new_coinbase("B", MINING_REWARD)>>
    /\ chain[3].transactions = <<new_coinbase("A", MINING_REWARD)>>
    /\ mempool = <<>>
    /\ result = "Ok"

(* ----------------------- C20: index is position ------------------------- *)

\* C20: the block stored at position i of the chain has index i, the genesis
\* block 0 and every next block one more; so when adjust_difficulty looks up
\* chain[latest.index - 10] the position is within the chain and is the one
\* exactly 10 before the latest block.
C20_IndexIsPosition ==
    /\ \A i \in 1..Len(chain) : chain[i].index = i - 1
    /\ \A i \in 2..Len(chain) : chain[i].index = chain[i - 1].index + 1
    /\ LET latest_block == last(chain)
           position == latest_block.index - DIFFICULTY_ADJUSTMENT_INTERVAL
       IN  (latest_block.index > 0
            /\ latest_block.index % DIFFICULTY_ADJUSTMENT_INTERVAL = 0) =>
               /\ position >= 0
               /\ position < Len(chain)
               /\ position = (Len(chain) - 1) - DIFFICULTY_ADJUSTMENT_INTERVAL
               /\ chain[position + 1].index = position

\* The latest block is block 20: the lookup of the second adjustment reads
\* position 10, ten before it.
C20_Witness ==
    /\ Len(chain) = 21
    /\ last(chain).index = 20
    /\ chain[11].index = 10
    /\ chain[11].timestamp # chain[21].timestamp

(* -------------------- C21: difficulty of the blocks --------------------- *)

\* C21: the chain's difficulty is the difficulty field of the last block (2
\* on a fresh chain), each block having been built with the difficulty its
\* own mining call left after the adjustment; the difficulty fields of
\* consecutive blocks i and i + 1 differ by at most 1, and differ only when i
\* is a positive multiple of 10.
C21_BlockDifficultyFollowsChain ==
    /\ difficulty = last(chain).difficulty
    /\ Len(chain) = 1 => difficulty = 2
    /\ \A p \in 1..(Len(chain) - 1) :
           LET i == chain[p].index
               step == chain[p + 1].difficulty - chain[p].difficulty
           IN  /\ step \in {-1, 0, 1}
               /\ step # 0 => (i > 0 /\ i % DIFFICULTY_ADJUSTMENT_INTERVAL = 0)

\* A chain whose difficulty rose by one between blocks 10 and 11 and fell by
\* one between blocks 20 and 21.
C21_Witness ==
    /\ Len(chain) = 22
    /\ chain[12].difficulty = chain[11].difficulty + 1
    /\ chain[22].difficulty = chain[21].difficulty - 1
    /\ chain[21].difficulty = chain[12].difficulty
    /\ difficulty = chain[22].difficulty

(* --------------------------- C22: total supply -------------------------- *)

\* C22: total supply is fixed by mining: under either build profile the
\* balances of all addresses, as get_balance returns them, add up to 100
\* times the number of mined blocks after the genesis block; transfers move
\* value and neither create nor destroy it.
C22_SupplyIsMiningRewards ==
    \A overflow_checks \in BOOLEAN :
        LET A == get_balance("A", overflow_checks)
            B == get_balance("B", overflow_checks)
        IN  /\ Addresses = {"A", "B"}
            /\ ~A.panicked
            /\ ~B.panicked
            /\ A.value + B.value = MINING_REWARD * (Len(chain) - 1)

(* ------------------------ C23: replayed copies -------------------------- *)

\* The number of copies of tx in txs.
Copies(txs, tx) == Cardinality({ p \in 1..Len(txs) : txs[p] = tx })

\* The sum, over the transactions of the set S, of copies times the amount
\* by which one copy moves the balance of address.
RECURSIVE CopiesEffect(_, _, _)
CopiesEffect(S, txs, address) ==
    IF S = {} THEN 0
    ELSE LET tx == CHOOSE t \in S : TRUE
             credit == IF tx.destination = address THEN tx.amount ELSE 0
             debit == IF tx.source = address THEN tx.amount ELSE 0
         IN  Copies(txs, tx) * (credit - debit)
             + CopiesEffect(S \ {tx}, txs, address)

\* tx is a valid signed transaction of which the pool or a mined block
\* already holds a copy.
Replayed(tx) ==
    /\ tx.source # NoKey
    /\ is_valid(tx)
    /\ Copies(mempool \o all_transactions(chain), tx) >= 1

\* Some signed transaction is in the mined blocks more than once.
ReplayMined ==
    \E p, q \in 1..Len(all_transactions(chain)) :
        /\ p # q
        /\ all_transactions(chain)[p] = all_transactions(chain)[q]
        /\ all_transactions(chain)[p].source # NoKey

\* C23: there is no duplicate or replay protection. add_transaction accepts
\* a valid signed transaction identical to one in the pool or in a mined
\* block; every accepted copy is placed in the next mined block; get_balance
\* counts each copy: the sender is debited and the receiver credited the
\* amount once per copy.
C23_CopiesAcceptedMinedCounted ==
    /\ [][\A tx \in TxInputs :
              (Replayed(tx) /\ add_transaction(tx)) =>
                  (result' = "Ok" /\ mempool' = Append(mempool, tx))]_vars
    /\ [][\A in \in MiningInputs :
              mine_pending_transactions(in[1], in[2]) =>
                  \A tx \in TxInputs :
                      Copies(last(chain').transactions, tx) = Copies(mempool, tx)]_vars
    /\ [](ReplayMined =>
              \A a \in Addresses, overflow_checks \in BOOLEAN :
                  LET mined == all_transactions(chain)
                      distinct == { mined[p] : p \in 1..Len(mined) }
                      outcome == get_balance(a, overflow_checks)
                  IN  /\ ~outcome.panicked
                      /\ outcome.value = CopiesEffect(distinct, mined, a))

====
